---- MODULE Spec2Model ----
(***************************************************************************)
(* A model of the dynamic-dns-go zone engine:                              *)
(*   record/record.go  the record key codec (GetKeyDomain, GetKey)         *)
(*   record/pad.go     the RFC2136 update engine working on a pad          *)
(*   zone (zone.go)    Zone.HandleRequest, getRecord, axfrRecord, writeDB  *)
(*                                                                         *)
(* Go strings are TLA+ strings; a record table (map[string][]string) is a  *)
(* function from the keys present to sequences of strings.  Two            *)
(* specifications are given: SpecPad drives one pad with single            *)
(* UpdateRecord calls, Spec runs concurrent HandleRequest invocations on   *)
(* the configured zones, one step for each access to the state the         *)
(* goroutines share (z.records, z.mtime, z.mu, the database file).         *)
(***************************************************************************)
EXTENDS Integers, Sequences, FiniteSets, TLC

(***************************************************************************)
(* Bounds of the model.                                                    *)
(***************************************************************************)
NumHandlers == 2      \* concurrently running HandleRequest invocations
MaxBatch == 2         \* update RRs applied by one UPDATE message
MaxRequests == 2      \* requests served in one run
MaxTime == 1          \* largest value of time.Now().Unix()
MaxAnswer == 4        \* a chase is followed while the answer holds fewer records

(***************************************************************************)
(* Constants of github.com/miekg/dns used by the code.                     *)
(***************************************************************************)
TypeA == 1
TypeNS == 2
TypeCNAME == 5
TypeSOA == 6
TypeAXFR == 252
TypeANY == 255
TypeTSIG == 250
ClassINET == 1
ClassCHAOS == 3
ClassNONE == 254
ClassANY == 255
RcodeSuccess == 0
RcodeRefused == 5
RcodeNotAuth == 9
OpcodeQuery == 0
OpcodeUpdate == 5

TAB == "\t"
Nil == "nil"

(***************************************************************************)
(* strings / slices helpers of the Go standard library.                    *)
(***************************************************************************)
HasPrefix(s, p) == Len(p) <= Len(s) /\ SubSeq(s, 1, Len(p)) = p

HasSuffix(s, p) == Len(p) <= Len(s) /\ SubSeq(s, Len(s) - Len(p) + 1, Len(s)) = p

UpperChars == "ABCDEFGHIJKLMNOPQRSTUVWXYZ"
LowerChars == "abcdefghijklmnopqrstuvwxyz"

lowerMap ==
  [c \in {SubSeq(UpperChars, i, i) : i \in 1..26} |->
     LET i == CHOOSE j \in 1..26 : SubSeq(UpperChars, j, j) = c
     IN SubSeq(LowerChars, i, i)]

lowerChar(c) == IF c \in DOMAIN lowerMap THEN lowerMap[c] ELSE c

RECURSIVE ToLower(_)
ToLower(s) ==
  IF s = "" THEN ""
  ELSE lowerChar(SubSeq(s, 1, 1)) \o ToLower(SubSeq(s, 2, Len(s)))

\* strings.Split with a one-character separator
RECURSIVE Split(_, _)
Split(s, sep) ==
  LET hits == {i \in 1..Len(s) : SubSeq(s, i, i) = sep}
  IN IF hits = {} THEN <<s>>
     ELSE LET i == CHOOSE j \in hits : \A k \in hits : j <= k
          IN <<SubSeq(s, 1, i - 1)>> \o Split(SubSeq(s, i + 1, Len(s)), sep)

RECURSIVE Join(_, _)
Join(parts, sep) ==
  IF Len(parts) = 0 THEN ""
  ELSE IF Len(parts) = 1 THEN parts[1]
  ELSE parts[1] \o sep \o Join(Tail(parts), sep)

Reverse(q) == [i \in 1..Len(q) |-> q[Len(q) + 1 - i]]

Contains(q, v) == \E i \in 1..Len(q) : q[i] = v

\* strconv.ParseUint of a decimal string; -1 when it is not a number
Digits == "0123456789"
digitOf(c) ==
  IF \E d \in 1..10 : SubSeq(Digits, d, d) = c
    THEN (CHOOSE d \in 1..10 : SubSeq(Digits, d, d) = c) - 1
    ELSE -1

RECURSIVE Atoi(_)
Atoi(s) ==
  IF s = "" THEN -1
  ELSE LET d == digitOf(SubSeq(s, Len(s), Len(s)))
       IN IF d < 0 THEN -1
          ELSE IF Len(s) = 1 THEN d
          ELSE LET r == Atoi(SubSeq(s, 1, Len(s) - 1))
               IN IF r < 0 THEN -1 ELSE r * 10 + d

(***************************************************************************)
(* github.com/miekg/dns: names, mnemonics, RR <-> presentation format.     *)
(* The names of the model carry no escaped characters.                     *)
(***************************************************************************)
Fqdn(s) == IF HasSuffix(s, ".") THEN s ELSE s \o "."

\* dns.SplitDomainName: the labels of a name, the root has none
SplitDomainName(s) ==
  LET f == Fqdn(s)
  IN IF f = "." THEN <<>> ELSE Split(SubSeq(f, 1, Len(f) - 1), ".")

RECURSIVE wireLen(_)
wireLen(labels) ==
  IF Len(labels) = 0 THEN 0 ELSE 1 + Len(Head(labels)) + wireLen(Tail(labels))

\* dns.IsDomainName: no empty name, no empty label, labels below 64
\* octets, at most 256 octets in all
IsDomainName(s) ==
  /\ s # ""
  /\ LET labels == SplitDomainName(s)
     IN /\ \A i \in 1..Len(labels) : Len(labels[i]) >= 1 /\ Len(labels[i]) < 64
        /\ wireLen(labels) <= 256

TypeString(t) ==
  CASE t = TypeA -> "A"
    [] t = TypeNS -> "NS"
    [] t = TypeCNAME -> "CNAME"
    [] t = TypeSOA -> "SOA"
    [] t = TypeAXFR -> "AXFR"
    [] t = TypeANY -> "ANY"
    [] OTHER -> "TYPE" \o ToString(t)

\* Class.String(): the mnemonic of a class is printed only when it is not
\* the mnemonic of a type as well, which ANY is
ClassString(c) ==
  CASE c = ClassINET -> "IN"
    [] c = ClassCHAOS -> "CH"
    [] c = ClassNONE -> "NONE"
    [] OTHER -> "CLASS" \o ToString(c)

KnownTypes == {TypeA, TypeNS, TypeCNAME, TypeSOA, TypeAXFR, TypeANY}

StringToType(s) ==
  IF \E t \in KnownTypes : TypeString(t) = s
    THEN CHOOSE t \in KnownTypes : TypeString(t) = s
    ELSE -1

\* the class field of a line String() wrote: a class mnemonic that is not
\* a type mnemonic, or CLASS followed by the number
StringToClass(s) ==
  CASE s = "IN" -> ClassINET
    [] s = "CH" -> ClassCHAOS
    [] s = "NONE" -> ClassNONE
    [] HasPrefix(s, "CLASS") /\ Len(s) > 5 ->
         LET n == Atoi(SubSeq(s, 6, Len(s))) IN IF n < 65536 THEN n ELSE -1
    [] OTHER -> -1

\* a dns.RR: the header fields and the rdata in presentation format
RR(name, ttl, class, rtype, rdlength, rdata) ==
  [Name |-> name, Ttl |-> ttl, Class |-> class, Rrtype |-> rtype,
   Rdlength |-> rdlength, Rdata |-> rdata]

\* RR.String(): owner, TTL, class, type and rdata separated by tabs
String(rr) ==
  rr.Name \o TAB \o ToString(rr.Ttl) \o TAB \o ClassString(rr.Class) \o TAB
    \o TypeString(rr.Rrtype) \o TAB \o rr.Rdata

\* dns.NewRR on a line written by String(); Rdlength is not set by the
\* zone parser
NewRR(s) ==
  LET f == Split(s, TAB)
  IN IF Len(f) # 5 THEN [rr |-> Nil, err |-> "parse"]
     ELSE LET ttl == Atoi(f[2])
              class == StringToClass(f[3])
              rtype == StringToType(f[4])
          IN IF ~IsDomainName(f[1]) \/ ttl < 0 \/ class < 0 \/ rtype < 0
               THEN [rr |-> Nil, err |-> "parse"]
               ELSE [rr |-> RR(Fqdn(f[1]), ttl, class, rtype, 0, f[5]),
                     err |-> Nil]

(***************************************************************************)
(* record/record.go                                                        *)
(***************************************************************************)
GetKeyDomain(domain) ==
  IF ~IsDomainName(domain)
    THEN [key |-> "", err |-> "Invailid domain: " \o domain]
    ELSE [key |-> ToLower(Join(Reverse(SplitDomainName(domain)), ".")),
          err |-> Nil]

GetKey(domain, rtype) ==
  LET d == GetKeyDomain(domain)
  IN IF d.err # Nil THEN [key |-> "", err |-> d.err]
     ELSE [key |-> Join(<<d.key, TypeString(rtype)>>, "_"), err |-> Nil]


(***************************************************************************)
(* record/pad.go.  A pad operation returns the pad's records after the     *)
(* call and the error of the call.                                         *)
(***************************************************************************)
errCNAMERecordIsExist == "CNAME record is exists"
errRecordsIsExist == "records is exists"

EmptyTable == [k \in {} |-> <<>>]

\* m[key] of a Go map: the nil slice when the key is missing
Lookup(records, key) == IF key \in DOMAIN records THEN records[key] ELSE <<>>

\* m[key] = v
Store(records, key, v) ==
  [k \in DOMAIN records \cup {key} |-> IF k = key THEN v ELSE records[k]]

\* delete(m, key) for every key of ks
Delete(records, ks) == [k \in DOMAIN records \ ks |-> records[k]]

NewPad(r) == r

\* deleteRecords with the arguments of strings.HasPrefix exchanged
deleteRecords_swapped(records, domain) ==
  LET p == GetKeyDomain(domain)
  IN IF p.err # Nil THEN [records |-> records, err |-> p.err]
     ELSE [records |-> Delete(records, {k \in DOMAIN records : HasPrefix(p.key, k)}),
           err |-> Nil]

deleteRecords(records, domain) ==
  LET p == GetKeyDomain(domain)
  IN IF p.err # Nil THEN [records |-> records, err |-> p.err]
     ELSE [records |-> Delete(records, {k \in DOMAIN records : HasPrefix(k, p.key)}),
           err |-> Nil]

\* deleteRecord deleting by prefix whatever the type
deleteRecord_byPrefix(records, domain, rtype) == deleteRecords(records, domain)

deleteRecord(records, domain, rtype) ==
  IF rtype = TypeANY THEN deleteRecords(records, domain)
  ELSE LET k == GetKey(domain, rtype)
       IN IF k.err # Nil THEN [records |-> records, err |-> k.err]
          ELSE [records |-> Delete(records, {k.key}), err |-> Nil]

hasRecords(records, domain) ==
  LET p == GetKeyDomain(domain)
  IN IF p.err # Nil THEN [ok |-> FALSE, err |-> p.err]
     ELSE [ok |-> \E k \in DOMAIN records : HasPrefix(k, p.key), err |-> Nil]

\* the tail of storeRecord, from "ここから、保存": dup guard and append
storeAppend(records, rr) ==
  LET k == GetKey(rr.Name, rr.Rrtype)
  IN IF k.err # Nil THEN [records |-> records, err |-> k.err]
     ELSE IF Contains(Lookup(records, k.key), String(rr))
       THEN [records |-> records, err |-> Nil]
       ELSE [records |-> Store(records, k.key, Append(Lookup(records, k.key), String(rr))),
             err |-> Nil]

\* storeRecord without the check for a CNAME of the same name
storeRecord_noCnameGuard(records, rr) ==
  LET has == IF rr.Rrtype = TypeCNAME THEN hasRecords(records, rr.Name)
             ELSE [ok |-> FALSE, err |-> Nil]
  IN IF has.err # Nil THEN [records |-> records, err |-> has.err]
     ELSE IF has.ok THEN [records |-> records, err |-> errRecordsIsExist]
     ELSE storeAppend(records, rr)

\* storeRecord saving first and checking the conflicts afterwards
storeRecord_checkAfter(records, rr) ==
  LET has == IF rr.Rrtype = TypeCNAME THEN hasRecords(records, rr.Name)
             ELSE [ok |-> FALSE, err |-> Nil]
      ck == GetKey(rr.Name, TypeCNAME)
      saved == storeAppend(records, rr)
  IN IF has.err # Nil THEN [records |-> records, err |-> has.err]
     ELSE IF has.ok THEN [records |-> saved.records, err |-> errRecordsIsExist]
     ELSE IF ck.err # Nil THEN [records |-> records, err |-> Nil]
     ELSE IF ck.key \in DOMAIN records
       THEN [records |-> saved.records, err |-> errCNAMERecordIsExist]
     ELSE saved

storeRecord(records, rr) ==
  LET has == IF rr.Rrtype = TypeCNAME THEN hasRecords(records, rr.Name)
             ELSE [ok |-> FALSE, err |-> Nil]
      ck == GetKey(rr.Name, TypeCNAME)
  IN IF has.err # Nil THEN [records |-> records, err |-> has.err]
     ELSE IF has.ok THEN [records |-> records, err |-> errRecordsIsExist]
     ELSE IF ck.err # Nil THEN [records |-> records, err |-> Nil]
     ELSE IF ck.key \in DOMAIN records
       THEN [records |-> records, err |-> errCNAMERecordIsExist]
     ELSE storeAppend(records, rr)

\* omitMatch comparing the stored line with its own TTL
omitMatch_keepTtl(v, rr) ==
  LET tmp == NewRR(v).rr
  IN ToLower(String([tmp EXCEPT !.Class = ClassNONE])) = ToLower(String(rr))

\* the comparison of omitRecord: the stored line, parsed, with TTL 0 and
\* class NONE, against the request RR, both lower-cased
omitMatch(v, rr) ==
  LET tmp == NewRR(v).rr
  IN ToLower(String([tmp EXCEPT !.Ttl = 0, !.Class = ClassNONE])) = ToLower(String(rr))

omitRecord(records, rr) ==
  LET k == GetKey(rr.Name, rr.Rrtype)
  IN IF k.err # Nil THEN [records |-> records, err |-> Nil]
     ELSE IF k.key \notin DOMAIN records THEN [records |-> records, err |-> Nil]
     ELSE LET values == records[k.key]
          IN IF \E i \in 1..Len(values) : NewRR(values[i]).err # Nil
               THEN [records |-> records, err |-> "parse"]
               ELSE [records |-> Store(records, k.key,
                                       SelectSeq(values, LAMBDA v : ~omitMatch(v, rr))),
                     err |-> Nil]

\* UpdateRecord taking every RR of class ANY for a delete, whatever its
\* RDLENGTH
UpdateRecord_anyRdlength(records, r) ==
  IF IsDomainName(r.Name)
    THEN IF r.Class = ClassANY
           THEN deleteRecord(records, r.Name, r.Rrtype)
         ELSE IF r.Class = ClassNONE
           THEN IF r.Ttl = 0
                  THEN omitRecord(records, r)
                  ELSE [records |-> records, err |-> Nil]
         ELSE IF r.Class = ClassINET
           THEN storeRecord(records, r)
         ELSE [records |-> records, err |-> Nil]
    ELSE [records |-> records, err |-> Nil]

UpdateRecord(records, r) ==
  IF IsDomainName(r.Name)
    THEN IF r.Class = ClassANY
           THEN IF r.Rdlength = 0
                  THEN deleteRecord(records, r.Name, r.Rrtype)
                  ELSE [records |-> records, err |-> Nil]
         ELSE IF r.Class = ClassNONE
           THEN IF r.Ttl = 0
                  THEN omitRecord(records, r)
                  ELSE [records |-> records, err |-> Nil]
         ELSE IF r.Class = ClassINET
           THEN storeRecord(records, r)
         ELSE [records |-> records, err |-> Nil]
    ELSE [records |-> records, err |-> Nil]

(***************************************************************************)
(* The update RRs a pad is driven with.                                    *)
(***************************************************************************)
AddA(name, ttl, ip) == RR(name, ttl, ClassINET, TypeA, 4, ip)
AddCNAME(name, target) == RR(name, 60, ClassINET, TypeCNAME, Len(target) + 1, target)
DelName(name) == RR(name, 0, ClassANY, TypeANY, 0, "")
DelRRset(name, rtype) == RR(name, 0, ClassANY, rtype, 0, "")
DelA(name, ip) == RR(name, 0, ClassNONE, TypeA, 4, ip)
DelCNAME(name, target) == RR(name, 0, ClassNONE, TypeCNAME, Len(target) + 1, target)

PadRRs ==
  { AddA("a.z.", 60, "10.0.0.1"), AddA("a.z.", 60, "10.0.0.2"),
    AddA("A.z.", 300, "10.0.0.1"),
    AddCNAME("a.z.", "b.z."),
    AddA("ab.z.", 60, "10.0.0.3"),
    AddCNAME("c.a.z.", "a.z."),
    DelName("a.z."), DelName("ab.z."),
    DelRRset("a.z.", TypeA), DelRRset("a.z.", TypeCNAME),
    DelA("a.z.", "10.0.0.1"), DelA("A.z.", "10.0.0.2"),
    DelCNAME("a.z.", "B.z."),
    RR("a.z.", 60, ClassINET, TypeNS, 6, "ns.z."),
    RR("a.z.", 60, ClassNONE, TypeA, 4, "10.0.0.1"),
    RR("a.z.", 0, ClassANY, TypeA, 4, "10.0.0.1"),
    RR("ab.z.", 60, ClassCHAOS, TypeA, 4, "10.0.0.3"),
    AddA("a..z.", 60, "10.0.0.1") }

(***************************************************************************)
(* The zone package: configuration of the zones served (config.json, read  *)
(* by main) and the requests they are driven with.                         *)
(***************************************************************************)
Zones == {"z.", "y."}

nsNameOf(z) == "ns." \o z
localAddr == "192.0.2.1"
allowCIDROf(z) == IF z = "y." THEN "10.0.0.0/8" ELSE ""

Handlers == 1..NumHandlers
NoHolder == 0

Question(name, qtype) == [Name |-> name, Qtype |-> qtype]

UpdateRRs(z) ==
  IF z = "z."
    THEN { AddA("a.z.", 60, "10.0.0.1"), AddCNAME("a.z.", "b.z."),
           AddA("b.z.", 60, "10.0.0.9"), AddCNAME("b.z.", "a.z."),
           DelName("a.z.") }
    ELSE { AddA("c.y.", 60, "10.0.0.5"), AddCNAME("d.y.", "c.Y.") }

Questions(z) ==
  IF z = "z."
    THEN { Question("z.", TypeNS), Question("z.", TypeSOA), Question("Z.", TypeAXFR),
           Question("a.z.", TypeA), Question("A.z.", TypeCNAME) }
    ELSE { Question("d.y.", TypeA) }

\* the question sections of the query messages HandleRequest is called
\* with: the MsgAcceptFunc of the servers leaves every opcode but UPDATE to
\* dns.DefaultMsgAcceptFunc, which turns away a message whose question
\* count is not one
QueryMsgs(z) == { <<q>> : q \in Questions(z) }

\* the source addresses of the updates for a zone
RemoteAddrs(z) ==
  IF allowCIDROf(z) = "" THEN {"192.168.0.7:53001"}
  ELSE {"10.1.2.3:53001", "192.168.0.7:53001"}
Tsigs == {"none", "ok", "bad"}

\* the TSIG outcomes the query message msg comes with, and those of updates
QueryTsigs(msg) == IF msg[1].Qtype = TypeAXFR THEN Tsigs ELSE {"none"}
UpdateTsigs == {"none", "ok"}

(***************************************************************************)
(* net/netip, as far as the update gate uses it: IPv4 only.                *)
(***************************************************************************)
\* netip.MustParseAddr: the four octets of the address
ParseAddr(s) ==
  LET o == Split(s, ".") IN <<Atoi(o[1]), Atoi(o[2]), Atoi(o[3]), Atoi(o[4])>>

\* netip.MustParsePrefix
ParsePrefix(s) ==
  LET f == Split(s, "/") IN [addr |-> ParseAddr(f[1]), bits |-> Atoi(f[2])]

\* the number of leading bits of octet i that a prefix of length bits covers
maskBits(bits, i) ==
  IF bits >= 8 * i THEN 8 ELSE IF bits <= 8 * (i - 1) THEN 0 ELSE bits - 8 * (i - 1)

\* netip.Prefix.Contains: the leading bits of the address are the prefix's
PrefixContains(prefix, addr) ==
  \A i \in 1..4 :
    addr[i] \div (2 ^ (8 - maskBits(prefix.bits, i)))
      = prefix.addr[i] \div (2 ^ (8 - maskBits(prefix.bits, i)))

\* net.SplitHostPort of "host:port"
SplitHostPort(s) == Split(s, ":")[1]

(***************************************************************************)
(* zone: the read side.  A Go map is ranged over in an arbitrary order;    *)
(* order is the sequence of keys the range statement happens to produce.   *)
(***************************************************************************)
\* int32(z.mtime); the times of the model are far below 2^31
Int32(x) == x

soaRR(zoneName, mt) ==
  RR(zoneName, 3600, ClassINET, TypeSOA, 0,
     "localhost. nobody. " \o ToString(Int32(mt)) \o " 28800 7200 2419200 1200")

nsRR(zoneName) ==
  [ns |-> RR(zoneName, 3600, ClassINET, TypeNS, 0, nsNameOf(zoneName)),
   a |-> RR(nsNameOf(zoneName), 3600, ClassINET, TypeA, 0, localAddr)]

\* the orders in which a range over the map can produce its keys
RECURSIVE KeyOrders(_)
KeyOrders(keys) ==
  IF keys = {} THEN {<<>>}
  ELSE UNION { {<<k>> \o rest : rest \in KeyOrders(keys \ {k})} : k \in keys }

\* append(matchedRecords, z.records[key]...) for the keys of order that
\* are in picked
RECURSIVE collect(_, _, _)
collect(records, order, picked) ==
  IF order = <<>> THEN <<>>
  ELSE (IF Head(order) \in picked THEN records[Head(order)] ELSE <<>>)
         \o collect(records, Tail(order), picked)

\* dns.NewRR on every line
parseAll(lines) == [i \in 1..Len(lines) |-> NewRR(lines[i])]

\* the keys of which a range over z.records appends the records: all of
\* them in axfrRecord, those with the prefix of qName in a getRecord of
\* type ANY
rangeKeys(records, qName, qQtype) ==
  IF qQtype = TypeAXFR THEN DOMAIN records
  ELSE LET k == GetKeyDomain(qName)
       IN IF k.err # Nil THEN {}
          ELSE {key \in DOMAIN records : HasPrefix(key, k.key)}

\* getRecord; ranged is what the loop over z.records has appended to
\* matchedRecords when qQtype is ANY
getRecord(records, qName, qQtype, ranged) ==
  LET k == IF qQtype = TypeANY THEN GetKeyDomain(qName) ELSE GetKey(qName, qQtype)
      matchedRecords == IF qQtype = TypeANY THEN ranged ELSE Lookup(records, k.key)
      tmpqName == ToLower(qName)
      parsed == parseAll(matchedRecords)
  IN IF k.err # Nil THEN [rr |-> <<>>, err |-> k.err]
     ELSE IF Len(matchedRecords) = 0 THEN [rr |-> <<>>, err |-> "Record not found"]
     ELSE IF \E i \in 1..Len(parsed) : parsed[i].err # Nil
       THEN [rr |-> <<>>, err |-> "parse"]
     ELSE [rr |-> [i \in 1..Len(SelectSeq(parsed, LAMBDA x : ToLower(x.rr.Name) = tmpqName))
                     |-> SelectSeq(parsed, LAMBDA x : ToLower(x.rr.Name) = tmpqName)[i].rr],
           err |-> Nil]

\* axfrRecord, lines 164-165: SOA, NS, A in rr.  mt is z.mtime as read by
\* this first z.soaRR().
axfrHead(zoneName, mt) ==
  <<soaRR(zoneName, mt), nsRR(zoneName).ns, nsRR(zoneName).a>>

\* axfrRecord from the loop over matchedRecords to its return: the lines
\* are parsed and the second z.soaRR() closes the answer.  mt is z.mtime as
\* read by that second call.
axfrFinish(lines, rr, zoneName, mt) ==
  LET parsed == parseAll(lines)
  IN IF \E i \in 1..Len(parsed) : parsed[i].err # Nil
       THEN [rr |-> <<>>, err |-> "parse"]
       ELSE [rr |-> rr \o [i \in 1..Len(parsed) |-> parsed[i].rr]
                       \o <<soaRR(zoneName, mt)>>,
             err |-> Nil]

\* invalidTsig looking at w.TsigStatus() alone: a request without a TSIG
\* record passes
invalidTsig_statusOnly(r) == r.Tsig = "bad"

\* invalidTsig of HandleRequest: no TSIG record, or a TSIG that failed
invalidTsig(r) == ~(r.Tsig = "ok")

\* HandleRequest, OpcodeQuery, lines 201-228 for the question q: the reply
\* and how the handler goes on: "done" (the question is answered),
\* "axfr" (axfrRecord is called) or "get" (getRecord at line 230 is called)
answerQuestion(reply, q, r, zoneName, mt) ==
  LET qZone == ToLower(q.Name) = ToLower(zoneName)
  IN IF qZone /\ q.Qtype = TypeNS
       THEN [m |-> [reply EXCEPT !.Answer = Append(@, nsRR(zoneName).ns),
                                 !.Extra = Append(@, nsRR(zoneName).a)],
             next |-> "done"]
     ELSE IF qZone /\ q.Qtype = TypeSOA
       THEN [m |-> [reply EXCEPT !.Answer = Append(@, soaRR(zoneName, mt))],
             next |-> "done"]
     ELSE IF qZone /\ q.Qtype = TypeAXFR
       THEN IF invalidTsig(r)
              THEN [m |-> [reply EXCEPT !.Rcode = RcodeNotAuth], next |-> "done"]
              ELSE [m |-> [reply EXCEPT !.Authoritative = TRUE], next |-> "axfr"]
     ELSE [m |-> reply, next |-> "get"]

\* lines 230-256 after getRecord has returned got: the reply, and whether
\* the CNAME search follows
firstLookup(reply, got, q) ==
  IF got.err = Nil
    THEN [m |-> [reply EXCEPT !.Answer = @ \o got.rr], chase |-> FALSE]
    ELSE [m |-> reply, chase |-> q.Qtype # TypeCNAME]

\* the loop over rrs under labelcname: the records appended to the answer
\* and, when a CNAME into the zone was met, the name to go on with
RECURSIVE chaseScan(_, _, _)
chaseScan(rrs, qtype, zoneName) ==
  IF rrs = <<>> THEN [kept |-> <<>>, goto |-> FALSE, target |-> ""]
  ELSE LET rr == Head(rrs)
           rest == chaseScan(Tail(rrs), qtype, zoneName)
       IN IF rr.Rrtype \notin {TypeCNAME, qtype} THEN rest
          ELSE IF rr.Rrtype = TypeCNAME /\ HasSuffix(rr.Rdata, zoneName)
            THEN [kept |-> <<rr>>, goto |-> TRUE, target |-> rr.Rdata]
          ELSE [kept |-> <<rr>> \o rest.kept, goto |-> rest.goto, target |-> rest.target]

\* lines 261-279 after getRecord has returned got: the reply, and the name
\* the search goes on with
chaseLookup(reply, got, q, zoneName) ==
  LET scan == chaseScan(got.rr, q.Qtype, zoneName)
  IN IF got.err # Nil THEN [m |-> reply, goto |-> FALSE, target |-> ""]
     ELSE [m |-> [reply EXCEPT !.Answer = @ \o scan.kept],
           goto |-> scan.goto, target |-> scan.target]

\* the TSIG record of a reply: the key and the algorithm of the request
\* (the time signed and the MAC, which WriteMsg fills in, are left out)
TsigName == "key."
TsigAlgorithm == "hmac-sha256."
tsigRR == RR(TsigName, 0, ClassANY, TypeTSIG, 0, TsigAlgorithm)

\* m.SetTsig: a TSIG record is appended to the additional section
SetTsig(reply) == [reply EXCEPT !.Extra = Append(@, tsigRR)]

\* the reply as HandleRequest returns: the deferred m.SetTsig has run when
\* the request came with a valid TSIG
Return(reply, r) == IF invalidTsig(r) THEN reply ELSE SetTsig(reply)

(***************************************************************************)
(* zone: the write side.                                                   *)
(***************************************************************************)
\* authorize without the allow-CIDR check
authorize_noCIDR(allowCIDR, r) ==
  IF invalidTsig(r) THEN RcodeNotAuth ELSE RcodeSuccess

\* the CIDR check and the TSIG check of OpcodeUpdate: the rcode they
\* answer with, RcodeSuccess when the update may go on
authorize(allowCIDR, r) ==
  IF allowCIDR # ""
       /\ ~PrefixContains(ParsePrefix(allowCIDR), ParseAddr(SplitHostPort(r.Remote)))
    THEN RcodeRefused
    ELSE IF invalidTsig(r) THEN RcodeNotAuth ELSE RcodeSuccess

\* maps.Clone
Clone(content) == [k \in DOMAIN content |-> content[k]]

(***************************************************************************)
(* encoding/json, as far as Dic needs it: an object of a string and an     *)
(* array of strings.  Of the escapes, those of the characters that occur   *)
(* in keys and in RR lines are modelled: the quote, the backslash, the tab.*)
(***************************************************************************)
QUOTE == "\""
BACKSLASH == "\\"

Dic(domain, recs) == [Domain |-> domain, Records |-> recs]

\* the string escaping of json.Marshal that leaves the tab as it is
RECURSIVE jsonEscape_rawTab(_)
jsonEscape_rawTab(str) ==
  IF str = "" THEN ""
  ELSE LET c == SubSeq(str, 1, 1)
       IN (IF c = QUOTE THEN BACKSLASH \o QUOTE
           ELSE IF c = BACKSLASH THEN BACKSLASH \o BACKSLASH
           ELSE c) \o jsonEscape_rawTab(SubSeq(str, 2, Len(str)))

\* the string escaping of json.Marshal
RECURSIVE jsonEscape(_)
jsonEscape(str) ==
  IF str = "" THEN ""
  ELSE LET c == SubSeq(str, 1, 1)
       IN (IF c = QUOTE THEN BACKSLASH \o QUOTE
           ELSE IF c = BACKSLASH THEN BACKSLASH \o BACKSLASH
           ELSE IF c = TAB THEN BACKSLASH \o "t"
           ELSE c) \o jsonEscape(SubSeq(str, 2, Len(str)))

jsonString(str) == QUOTE \o jsonEscape(str) \o QUOTE

\* json.Marshal(Dic{Domain: k, Records: v}); a nil slice is written as null
Marshal(dic) ==
  "{" \o jsonString("domain") \o ":" \o jsonString(dic.Domain) \o ","
      \o jsonString("records") \o ":"
      \o "[" \o Join([i \in 1..Len(dic.Records) |-> jsonString(dic.Records[i])], ",") \o "]"
      \o "}"

\* the decoder reading a string literal of text whose opening quote is
\* before position i: the value and the position after the closing quote
RECURSIVE scanString(_, _, _)
scanString(text, i, acc) ==
  IF i > Len(text) THEN [ok |-> FALSE, val |-> "", next |-> i]
  ELSE LET c == SubSeq(text, i, i)
       IN IF c = QUOTE THEN [ok |-> TRUE, val |-> acc, next |-> i + 1]
          ELSE IF c = TAB THEN [ok |-> FALSE, val |-> "", next |-> i]
          ELSE IF c = BACKSLASH
            THEN LET d == SubSeq(text, i + 1, i + 1)
                 IN IF d = "t" THEN scanString(text, i + 2, acc \o TAB)
                    ELSE IF d \in {QUOTE, BACKSLASH} THEN scanString(text, i + 2, acc \o d)
                    ELSE [ok |-> FALSE, val |-> "", next |-> i]
          ELSE scanString(text, i + 1, acc \o c)

\* text has lit at position i
At(text, i, lit) ==
  i + Len(lit) - 1 <= Len(text) /\ SubSeq(text, i, i + Len(lit) - 1) = lit

\* the decoder reading the elements of an array of strings from position i,
\* after the opening bracket or a comma
RECURSIVE scanArray(_, _, _)
scanArray(text, i, acc) ==
  IF ~At(text, i, QUOTE) THEN [ok |-> FALSE, val |-> <<>>, next |-> i]
  ELSE LET e == scanString(text, i + 1, "")
       IN IF ~e.ok THEN [ok |-> FALSE, val |-> <<>>, next |-> i]
          ELSE IF At(text, e.next, ",") THEN scanArray(text, e.next + 1, Append(acc, e.val))
          ELSE IF At(text, e.next, "]")
            THEN [ok |-> TRUE, val |-> Append(acc, e.val), next |-> e.next + 1]
          ELSE [ok |-> FALSE, val |-> <<>>, next |-> i]

\* dec.Decode(&v) on one line of the file
Unmarshal(text) ==
  LET h1 == "{" \o jsonString("domain") \o ":" \o QUOTE
      h2 == "," \o jsonString("records") \o ":"
      bad == [ok |-> FALSE, v |-> Dic("", <<>>)]
  IN IF ~At(text, 1, h1) THEN bad
     ELSE LET d == scanString(text, Len(h1) + 1, "")
          IN IF ~d.ok \/ ~At(text, d.next, h2) THEN bad
             ELSE LET j == d.next + Len(h2)
                      arr == IF At(text, j, "null") THEN [ok |-> TRUE, val |-> <<>>, next |-> j + 4]
                             ELSE IF At(text, j, "[]") THEN [ok |-> TRUE, val |-> <<>>, next |-> j + 2]
                             ELSE IF At(text, j, "[") THEN scanArray(text, j + 1, <<>>)
                             ELSE [ok |-> FALSE, val |-> <<>>, next |-> j]
                  IN IF arr.ok /\ At(text, arr.next, "}") /\ arr.next = Len(text)
                       THEN [ok |-> TRUE, v |-> Dic(d.val, arr.val)]
                       ELSE bad

(***************************************************************************)
(* The database file of a zone: the lines that are whole, one Dic each,    *)
(* the cut line a short write has left at its end ("" when there is        *)
(* none), and its modification time, which the file system sets when the   *)
(* file is truncated or written.  writeDB writes one line per key of the   *)
(* map, so the order in which range produced the keys makes no difference  *)
(* to ReadDB and the whole lines are kept as a set.                        *)
(***************************************************************************)
EmptyFile == [lines |-> {}, cut |-> "", modTime |-> 0]

\* ReadDB into the map tbl: every Dic of the file f is stored under its
\* domain as it is decoded; a text that is no Dic is an error, on which
\* ReadDB returns with the lines before it stored (main exits then).  The
\* whole lines of f are lines Marshal wrote and the cut line is the last.
ReadDB(tbl, f) ==
  LET decoded == {Unmarshal(l) : l \in f.lines}
      vs == {d.v : d \in {e \in decoded : e.ok}}
      doms == {v.Domain : v \in vs}
      stored == [k \in DOMAIN tbl \cup doms |->
                   IF k \in doms THEN (CHOOSE v \in vs : v.Domain = k).Records
                   ELSE tbl[k]]
  IN IF \E d \in decoded : ~d.ok THEN [records |-> stored, err |-> "decode"]
     ELSE IF f.cut # "" /\ ~Unmarshal(f.cut).ok
       THEN [records |-> stored, err |-> "decode"]
     ELSE IF f.cut # ""
       THEN [records |-> [k \in DOMAIN stored \cup {Unmarshal(f.cut).v.Domain} |->
                            IF k = Unmarshal(f.cut).v.Domain
                              THEN Unmarshal(f.cut).v.Records
                              ELSE stored[k]],
             err |-> Nil]
     ELSE [records |-> stored, err |-> Nil]

\* writeDB, lines 89-97: the lines buffered for the keys of content
dbLines(content, keys) == {Marshal(Dic(k, content[k])) : k \in keys}

\* os.Create at time t: the file is there and empty
createFile(t) == [lines |-> {}, cut |-> "", modTime |-> t]

\* w.Flush at time t has written the buffer to the file f; nothing is
\* written for an empty table
flushFile(content, f, t) ==
  IF DOMAIN content = {} THEN f
  ELSE [lines |-> dbLines(content, DOMAIN content), cut |-> "", modTime |-> t]

\* a line cut by a short write (a line that lacks its newline only reads
\* as the whole line)
Cuts(line) == {SubSeq(line, 1, Len(line) \div 2)}

\* the files a failing write of the buffer at time t can leave of f: a
\* beginning of the bytes of content, which is nothing, or some of the
\* lines and the beginning of another, or every line with the newline of
\* the last one missing, which reads as the whole table
partialFiles(content, f, t) ==
  {f} \cup
  { [lines |-> dbLines(content, written), cut |-> c, modTime |-> t] :
      <<written, c>> \in
        { wc \in (SUBSET DOMAIN content) \X
                 ({""} \cup UNION {Cuts(l) : l \in dbLines(content, DOMAIN content)}) :
            /\ wc[1] # {} \/ wc[2] # ""
            /\ wc[2] = "" \/ \E k \in DOMAIN content \ wc[1] :
                               wc[2] \in Cuts(Marshal(Dic(k, content[k]))) } }

(***************************************************************************)
(* State.                                                                  *)
(*   records, mtime   Zone.records and Zone.mtime of every zone            *)
(*   file             the file Zone.filename                               *)
(*   mu               the holder of Zone.mu                                *)
(*   pc, hz, req, m   a HandleRequest invocation: its position, its zone,  *)
(*                    the request r and the reply m                        *)
(*   cur              locals of a query: qName and qQtype of the getRecord *)
(*                    call under way and whether it is the one of line     *)
(*                    230; the state of a range over z.records (left: the  *)
(*                    entries it has still to produce, visited: those it   *)
(*                    has produced); matchedRecords (lines) and rr of      *)
(*                    axfrRecord; and, as history, the tables the query    *)
(*                    has read                                             *)
(*   tx               history of an UPDATE: how it ended, the table when   *)
(*                    the batch began, the tables queries have read since, *)
(*                    the number of RRs applied, the outcome of the system *)
(*                    calls of its writeDB                                 *)
(*   served           requests accepted so far                             *)
(*   crashed          the process is gone and only the files are left: the *)
(*                    runtime has aborted it on a concurrent map read and  *)
(*                    map write, or main has stopped                       *)
(*   pad, call        the pad of SpecPad and its last UpdateRecord call    *)
(***************************************************************************)
VARIABLES records, file, mtime, mu, pc, hz, req, m, cur, tx, served,
          crashed, pad, call

zoneVars == <<records, file, mtime, mu, pc, hz, req, m, cur, tx, served, crashed>>
padVars == <<pad, call>>
vars == <<records, file, mtime, mu, pc, hz, req, m, cur, tx, served,
          crashed, pad, call>>

NoReq == [Opcode |-> OpcodeQuery, Remote |-> "", Tsig |-> "none", Question |-> <<>>]
NoCur == [qName |-> "", qQtype |-> TypeANY, first |-> FALSE, left |-> {}, visited |-> {},
          lines |-> <<>>, rr |-> <<>>, view |-> {}]
NoTx == [st |-> "none", pre |-> EmptyTable, obs |-> {}, n |-> 0, io |-> "none"]

\* new(dns.Msg) after SetReply(r): rcode success and the first question of r
SetReply(r) ==
  [Rcode |-> RcodeSuccess, Answer |-> <<>>, Extra |-> <<>>, Authoritative |-> FALSE,
   Question |-> IF Len(r.Question) > 0 THEN <<r.Question[1]>> ELSE <<>>]

\* call records the last UpdateRecord call on the pad: its RR, the pad's
\* records before it and its error
NoCall == [done |-> FALSE, rr |-> DelName("."), before |-> EmptyTable, err |-> Nil]

\* zone.New and ReadDB on an empty database file, for every configured zone
ZoneInit ==
  /\ file = [z \in Zones |-> EmptyFile]
  /\ records = [z \in Zones |-> ReadDB(EmptyTable, EmptyFile).records]
  /\ mtime = [z \in Zones |-> EmptyFile.modTime]
  /\ mu = [z \in Zones |-> NoHolder]
  /\ pc = [h \in Handlers |-> "idle"]
  /\ hz = [h \in Handlers |-> "z."]
  /\ req = [h \in Handlers |-> NoReq]
  /\ m = [h \in Handlers |-> SetReply(NoReq)]
  /\ cur = [h \in Handlers |-> NoCur]
  /\ tx = [h \in Handlers |-> NoTx]
  /\ served = 0
  /\ crashed = FALSE

PadInit ==
  /\ pad = NewPad(EmptyTable)
  /\ call = NoCall

Init == ZoneInit /\ PadInit

(***************************************************************************)
(* SpecPad: one pad, driven by single UpdateRecord calls.                  *)
(***************************************************************************)
\* one pad.UpdateRecord(rr, q) call
PadUpdate ==
  /\ \E rr \in PadRRs :
       LET res == UpdateRecord(pad, rr)
       IN /\ pad' = res.records
          /\ call' = [done |-> TRUE, rr |-> rr, before |-> pad, err |-> res.err]
  /\ UNCHANGED zoneVars

PadNext == PadUpdate

SpecPad == Init /\ [][PadNext]_vars

(***************************************************************************)
(* Spec: concurrent HandleRequest invocations, one goroutine each.  A step *)
(* is one access to what the goroutines share (z.records, z.mtime, z.mu,   *)
(* the file) with the statements on locals that follow it.  A query takes  *)
(* no lock: a look-up of one key is a step, a range over z.records is a    *)
(* step for every entry it produces.  An update holds z.mu from its first  *)
(* statement to its return, applies one RR of the update section per step  *)
(* and saves in the steps of writeDB.  The RRs of r.Ns (once per question  *)
(* of r) are drawn as they are applied.  pad is NewPad(z.records): the pad *)
(* works on the map of the zone itself.  The deferred calls run as the     *)
(* handler returns: z.mu.Unlock and m.SetTsig with the step that returns,  *)
(* w.WriteMsg(m) as a step of its own.                                     *)
(***************************************************************************)
Running == ~crashed

\* an update that does not wait for z.mu
TryLock_noMutex(z) == TRUE

\* z.mu.Lock() returns
TryLock(z) == mu[z] = NoHolder

\* the requests are served by interchangeable goroutines: a new request
\* goes to the first invocation slot that is free
FreeSlot(h) == pc[h] = "idle" /\ \A g \in Handlers : g < h => pc[g] # "idle"

\* the positions of an update between z.mu.Lock() and its return
Locked == {"apply", "flush", "close", "stamp"}

\* the positions of a query in a range over z.records
Ranging == {"axfr", "range"}

\* the tables queries have read while an update of zone z is under way
Observe(z) ==
  [g \in Handlers |->
     IF pc[g] \in Locked /\ hz[g] = z
       THEN [tx[g] EXCEPT !.obs = @ \cup {records[z]}]
       ELSE tx[g]]

\* the ranges over z.records of zone z under way when the map changes from
\* old to new: an entry that is removed will not be produced (and is a new
\* entry when it is created again)
Iterators(z, old, new) ==
  [g \in Handlers |->
     IF pc[g] \in Ranging /\ hz[g] = z
       THEN [cur[g] EXCEPT !.left = @ \cap DOMAIN new, !.visited = @ \cap DOMAIN new]
       ELSE cur[g]]

\* the values time.Now().Unix() and the clock of the file system can have:
\* not before any time read earlier
Times == {t \in 0..MaxTime : \A z \in Zones : mtime[z] <= t /\ file[z].modTime <= t}

\* HandleRequest is called with a query: the reply is set up and the first
\* question is handled up to its first access to the zone: z.mtime for SOA,
\* the start of the range of axfrRecord or getRecord, or the look-up of
\* getRecord
QueryStart(h) ==
  /\ Running /\ FreeSlot(h) /\ served < MaxRequests
  /\ \E z \in Zones : \E msg \in QueryMsgs(z) : \E tsig \in QueryTsigs(msg) :
       LET r == [Opcode |-> OpcodeQuery, Remote |-> "", Tsig |-> tsig, Question |-> msg]
           q == SetReply(r).Question[1]
       IN \* the values of this call, each computed once
          \E a \in {answerQuestion(SetReply(r), q, r, z, mtime[z])} :
          \E got \in {getRecord(records[z], q.Name, q.Qtype, <<>>)} :
          \E f \in {firstLookup(a.m, got, q)} :
          \E seen \in {{records[z]}} :
            /\ req' = [req EXCEPT ![h] = r]
            /\ hz' = [hz EXCEPT ![h] = z]
            /\ CASE a.next = "done" ->
                      /\ m' = [m EXCEPT ![h] = Return(a.m, r)]
                      /\ pc' = [pc EXCEPT ![h] = "done"]
                      /\ cur' = [cur EXCEPT ![h] = NoCur]
                      /\ tx' = tx
                 [] a.next = "axfr" ->
                      /\ m' = [m EXCEPT ![h] = a.m]
                      /\ pc' = [pc EXCEPT ![h] = "axfr"]
                      /\ cur' = [cur EXCEPT ![h] =
                                   [NoCur EXCEPT !.qQtype = TypeAXFR,
                                                 !.left = rangeKeys(records[z], q.Name, TypeAXFR),
                                                 !.view = seen]]
                      /\ tx' = Observe(z)
                 [] a.next = "get" /\ q.Qtype = TypeANY ->
                      /\ m' = [m EXCEPT ![h] = a.m]
                      /\ pc' = [pc EXCEPT ![h] = "range"]
                      /\ cur' = [cur EXCEPT ![h] =
                                   [NoCur EXCEPT !.qName = q.Name, !.first = TRUE,
                                                 !.left = rangeKeys(records[z], q.Name, TypeANY),
                                                 !.view = seen]]
                      /\ tx' = Observe(z)
                 [] OTHER ->
                      /\ m' = [m EXCEPT ![h] = IF f.chase THEN f.m ELSE Return(f.m, r)]
                      /\ pc' = [pc EXCEPT ![h] = IF f.chase THEN "chase" ELSE "done"]
                      /\ cur' = [cur EXCEPT ![h] =
                                   IF f.chase
                                     THEN [NoCur EXCEPT !.qName = q.Name, !.qQtype = TypeCNAME,
                                                        !.view = seen]
                                     ELSE [NoCur EXCEPT !.view = seen]]
                      /\ tx' = Observe(z)
  /\ served' = served + 1
  /\ UNCHANGED <<records, file, mtime, mu, crashed, pad, call>>

\* a range over z.records produces an entry and its records are appended
\* to matchedRecords: an entry it has still to produce or one created
\* since it began
RangeKey(h) ==
  /\ Running /\ pc[h] \in Ranging
  /\ LET z == hz[h]
     IN /\ \E k \in rangeKeys(records[z], cur[h].qName, cur[h].qQtype) \ cur[h].visited :
             cur' = [cur EXCEPT ![h].lines = @ \o records[z][k],
                                ![h].left = @ \ {k},
                                ![h].visited = @ \cup {k},
                                ![h].view = @ \cup {records[z]}]
        /\ tx' = Observe(z)
  /\ UNCHANGED <<records, file, mtime, mu, pc, hz, req, m, served, crashed, pad, call>>

\* the range of a getRecord of type ANY finds no further entry: getRecord
\* returns and the handler goes on to its next look-up or returns
RangeEnd(h) ==
  /\ Running /\ pc[h] = "range" /\ cur[h].left = {}
  /\ \E z \in {hz[h]} : \E q \in {m[h].Question[1]} :
     \E got \in {getRecord(records[z], cur[h].qName, TypeANY, cur[h].lines)} :
     \E f \in {firstLookup(m[h], got, q)} :
     \E c \in {chaseLookup(m[h], got, q, z)} :
     \E more \in {IF cur[h].first THEN f.chase ELSE c.goto} :
     \E reply \in {IF cur[h].first THEN f.m ELSE c.m} :
     \E seen \in {cur[h].view \cup {records[z]}} :
        /\ m' = [m EXCEPT ![h] = IF more THEN reply ELSE Return(reply, req[h])]
        /\ pc' = [pc EXCEPT ![h] = IF more THEN "chase" ELSE "done"]
        /\ cur' = [cur EXCEPT ![h] =
                     IF more
                       THEN [NoCur EXCEPT !.qName = IF cur[h].first THEN q.Name ELSE c.target,
                                          !.qQtype = IF cur[h].first THEN TypeCNAME ELSE TypeANY,
                                          !.view = seen]
                       ELSE [NoCur EXCEPT !.view = seen]]
        /\ tx' = Observe(z)
  /\ UNCHANGED <<records, file, mtime, mu, hz, req, served, crashed, pad, call>>

\* the range of axfrRecord finds no further entry and the first z.soaRR()
\* reads z.mtime
AxfrSoa(h) ==
  /\ Running /\ pc[h] = "axfr" /\ cur[h].left = {}
  /\ pc' = [pc EXCEPT ![h] = "axfr2"]
  /\ cur' = [cur EXCEPT ![h].rr = axfrHead(hz[h], mtime[hz[h]]),
                         ![h].visited = {},
                         ![h].view = @ \cup {records[hz[h]]}]
  /\ tx' = Observe(hz[h])
  /\ UNCHANGED <<records, file, mtime, mu, hz, req, m, served, crashed, pad, call>>

\* axfrRecord from its loop over matchedRecords to its return, where the
\* second z.soaRR() reads z.mtime, and the assignment of its result to
\* m.Answer
Axfr(h) ==
  /\ Running /\ pc[h] = "axfr2"
  /\ \E z \in {hz[h]} : \E res \in {axfrFinish(cur[h].lines, cur[h].rr, z, mtime[z])} :
        m' = [m EXCEPT ![h] = Return([@ EXCEPT !.Answer = IF res.err = Nil THEN res.rr
                                                         ELSE @], req[h])]
  /\ pc' = [pc EXCEPT ![h] = "done"]
  /\ cur' = [cur EXCEPT ![h] = [NoCur EXCEPT !.view = cur[h].view]]
  /\ UNCHANGED <<records, file, mtime, mu, hz, req, tx, served, crashed, pad, call>>

\* labelcname: getRecord is called.  For a type other than ANY it looks
\* the key up and the loop over its result follows; for ANY its range
\* over z.records begins.  The search of the model goes no further than
\* MaxAnswer records in the answer.
Chase(h) ==
  /\ Running /\ pc[h] = "chase" /\ Len(m[h].Answer) < MaxAnswer
  /\ \E z \in {hz[h]} : \E q \in {m[h].Question[1]} :
     \E seen \in {cur[h].view \cup {records[z]}} :
     \E got \in {getRecord(records[z], cur[h].qName, cur[h].qQtype, <<>>)} :
     \E c \in {chaseLookup(m[h], got, q, z)} :
        IF cur[h].qQtype = TypeANY
          THEN /\ m' = m
               /\ pc' = [pc EXCEPT ![h] = "range"]
               /\ cur' = [cur EXCEPT ![h] =
                            [NoCur EXCEPT !.qName = cur[h].qName,
                                          !.left = rangeKeys(records[z], cur[h].qName, TypeANY),
                                          !.view = seen]]
               /\ tx' = Observe(z)
          ELSE /\ m' = [m EXCEPT ![h] = IF c.goto THEN c.m ELSE Return(c.m, req[h])]
               /\ pc' = [pc EXCEPT ![h] = IF c.goto THEN "chase" ELSE "done"]
               /\ cur' = [cur EXCEPT ![h] =
                            IF c.goto
                              THEN [NoCur EXCEPT !.qName = c.target, !.view = seen]
                              ELSE [NoCur EXCEPT !.view = seen]]
               /\ tx' = Observe(z)
  /\ UNCHANGED <<records, file, mtime, mu, hz, req, served, crashed, pad, call>>

\* HandleRequest is called with an update for a zone: the reply is set up
\* and z.mu.Lock() is reached
UpdateStart(h) ==
  /\ Running /\ FreeSlot(h) /\ served < MaxRequests
  /\ \E z \in Zones : \E remote \in RemoteAddrs(z), tsig \in UpdateTsigs :
       LET r == [Opcode |-> OpcodeUpdate, Remote |-> remote, Tsig |-> tsig,
                 Question |-> <<Question(z, TypeSOA)>>]
       IN /\ hz' = [hz EXCEPT ![h] = z]
          /\ req' = [req EXCEPT ![h] = r]
          /\ m' = [m EXCEPT ![h] = SetReply(r)]
  /\ pc' = [pc EXCEPT ![h] = "lock"]
  /\ served' = served + 1
  /\ UNCHANGED <<records, file, mtime, mu, cur, tx, crashed, pad, call>>

\* the lock is taken and the request is checked against the allow-CIDR
\* and for its TSIG; a refused request returns, which unlocks
Lock(h) ==
  /\ Running /\ pc[h] = "lock" /\ TryLock(hz[h])
  /\ LET z == hz[h]
         code == authorize(allowCIDROf(z), req[h])
     IN IF code # RcodeSuccess
          THEN /\ m' = [m EXCEPT ![h] = Return([@ EXCEPT !.Rcode = code], req[h])]
               /\ pc' = [pc EXCEPT ![h] = "done"]
               /\ tx' = [tx EXCEPT ![h] = [NoTx EXCEPT !.st = "denied"]]
               /\ mu' = mu
          ELSE /\ m' = m
               /\ pc' = [pc EXCEPT ![h] = "apply"]
               /\ tx' = [tx EXCEPT ![h] = [NoTx EXCEPT !.st = "open", !.pre = records[z]]]
               /\ mu' = [mu EXCEPT ![z] = h]
  /\ UNCHANGED <<records, file, mtime, hz, req, cur, served, crashed, pad, call>>

\* pad.UpdateRecord(rr, &question) for the next RR of the update section
ApplyRR(h) ==
  /\ Running /\ pc[h] = "apply" /\ tx[h].n < MaxBatch
  /\ \E rr \in UpdateRRs(hz[h]) :
       \E z \in {hz[h]} : \E res \in {UpdateRecord(NewPad(records[z]), rr)} :
          /\ records' = [records EXCEPT ![z] = res.records]
          /\ cur' = Iterators(z, records[z], res.records)
          /\ IF res.err # Nil
               THEN /\ m' = [m EXCEPT ![h] = Return([@ EXCEPT !.Rcode = RcodeRefused], req[h])]
                    /\ pc' = [pc EXCEPT ![h] = "done"]
                    /\ mu' = [mu EXCEPT ![z] = NoHolder]
                    /\ tx' = [tx EXCEPT ![h] = [NoTx EXCEPT !.st = "failed"]]
               ELSE /\ m' = m
                    /\ pc' = pc
                    /\ mu' = mu
                    /\ tx' = [tx EXCEPT ![h].n = @ + 1]
  /\ UNCHANGED <<file, mtime, hz, req, served, crashed, pad, call>>

\* writeDB returns the error of a system call (io): the reply is Refused
\* and HandleRequest returns
SaveFailed(h, io) ==
  /\ m' = [m EXCEPT ![h] = Return([@ EXCEPT !.Rcode = RcodeRefused], req[h])]
  /\ pc' = [pc EXCEPT ![h] = "done"]
  /\ mu' = [mu EXCEPT ![hz[h]] = NoHolder]
  /\ tx' = [tx EXCEPT ![h] = [NoTx EXCEPT !.st = "unsaved", !.io = io]]

\* the update section is exhausted and z.writeDB(pad.Records()) is called:
\* os.Create
Create(h) ==
  /\ Running /\ pc[h] = "apply"
  /\ \/ /\ file' = file
        /\ SaveFailed(h, "create")
     \/ /\ \E t \in Times : file' = [file EXCEPT ![hz[h]] = createFile(t)]
        /\ pc' = [pc EXCEPT ![h] = "flush"]
        /\ UNCHANGED <<m, mu, tx>>
  /\ UNCHANGED <<records, mtime, hz, req, cur, served, crashed, pad, call>>

\* writeDB from its loop over content to w.Flush: the lines are buffered
\* and the buffer is written to the file, all of it or, when the write
\* fails (in w.Flush, or in w.Write when the buffer is full), a part
Flush(h) ==
  /\ Running /\ pc[h] = "flush"
  /\ LET z == hz[h]
     IN \E t \in Times :
          \/ /\ file' = [file EXCEPT ![z] = flushFile(records[z], @, t)]
             /\ pc' = [pc EXCEPT ![h] = "close"]
             /\ UNCHANGED <<m, mu, tx>>
          \/ /\ DOMAIN records[z] # {}
             /\ \E f \in partialFiles(records[z], file[z], t) :
                  file' = [file EXCEPT ![z] = f]
             /\ SaveFailed(h, "flush")
  /\ UNCHANGED <<records, mtime, hz, req, cur, served, crashed, pad, call>>

\* f.Close(): when it fails writeDB returns err, which is nil here, and
\* HandleRequest returns as after a save; otherwise z.records =
\* maps.Clone(content) follows, content being the map of the zone
Close(h) ==
  /\ Running /\ pc[h] = "close"
  /\ \/ /\ records' = records
        /\ pc' = [pc EXCEPT ![h] = "done"]
        /\ m' = [m EXCEPT ![h] = Return(@, req[h])]
        /\ mu' = [mu EXCEPT ![hz[h]] = NoHolder]
        /\ tx' = [tx EXCEPT ![h] = [NoTx EXCEPT !.st = "updated", !.io = "close"]]
     \/ /\ records' = [records EXCEPT ![hz[h]] = Clone(@)]
        /\ pc' = [pc EXCEPT ![h] = "stamp"]
        /\ UNCHANGED <<m, mu, tx>>
  /\ UNCHANGED <<file, mtime, hz, req, cur, served, crashed, pad, call>>

\* z.mtime = time.Now().Unix(); writeDB and HandleRequest return
Stamp(h) ==
  /\ Running /\ pc[h] = "stamp"
  /\ \E t \in Times : mtime' = [mtime EXCEPT ![hz[h]] = t]
  /\ pc' = [pc EXCEPT ![h] = "done"]
  /\ m' = [m EXCEPT ![h] = Return(@, req[h])]
  /\ mu' = [mu EXCEPT ![hz[h]] = NoHolder]
  /\ tx' = [tx EXCEPT ![h] = [NoTx EXCEPT !.st = "updated", !.io = "ok"]]
  /\ UNCHANGED <<records, file, hz, req, cur, served, crashed, pad, call>>

\* the deferred w.WriteMsg(m) has sent the reply; the invocation is over
Finish(h) ==
  /\ Running /\ pc[h] = "done"
  /\ pc' = [pc EXCEPT ![h] = "idle"]
  /\ req' = [req EXCEPT ![h] = NoReq]
  /\ m' = [m EXCEPT ![h] = SetReply(NoReq)]
  /\ tx' = [tx EXCEPT ![h] = NoTx]
  /\ hz' = [hz EXCEPT ![h] = "z."]
  /\ cur' = [cur EXCEPT ![h] = NoCur]
  /\ UNCHANGED <<records, file, mtime, mu, served, crashed, pad, call>>

\* what is left of the state when the process has ended: no zone, no lock
\* held, no request being served; the files stay
Stopped ==
  [records |-> [z \in Zones |-> EmptyTable],
   mtime |-> [z \in Zones |-> 0],
   mu |-> [z \in Zones |-> NoHolder],
   pc |-> [h \in Handlers |-> "idle"],
   hz |-> [h \in Handlers |-> "z."],
   req |-> [h \in Handlers |-> NoReq],
   m |-> [h \in Handlers |-> SetReply(NoReq)],
   cur |-> [h \in Handlers |-> NoCur],
   tx |-> [h \in Handlers |-> NoTx]]

\* a query reads z.records while an update writes it: the map access is
\* not synchronised and the runtime may abort the process, which leaves
\* nothing but the files
RaceFault ==
  /\ Running
  /\ \E g, h \in Handlers :
       /\ pc[g] = "apply"
       /\ \/ pc[h] \in Ranging \cup {"chase"} /\ hz[h] = hz[g]
          \/ FreeSlot(h) /\ served < MaxRequests
  /\ crashed' = TRUE
  /\ records' = Stopped.records
  /\ mtime' = Stopped.mtime
  /\ mu' = Stopped.mu
  /\ pc' = Stopped.pc
  /\ hz' = Stopped.hz
  /\ req' = Stopped.req
  /\ m' = Stopped.m
  /\ cur' = Stopped.cur
  /\ tx' = Stopped.tx
  /\ UNCHANGED <<file, served, pad, call>>

\* main is told to stop and shuts the servers down: ShutdownContext waits
\* for the requests being served, but no longer than its context of ten
\* seconds allows, after which main calls os.Exit(1).  The process ends,
\* with the requests still in flight unanswered
Shutdown ==
  /\ Running
  /\ crashed' = TRUE
  /\ records' = Stopped.records
  /\ mtime' = Stopped.mtime
  /\ mu' = Stopped.mu
  /\ pc' = Stopped.pc
  /\ hz' = Stopped.hz
  /\ req' = Stopped.req
  /\ m' = Stopped.m
  /\ cur' = Stopped.cur
  /\ tx' = Stopped.tx
  /\ UNCHANGED <<file, served, pad, call>>

\* the process is started again: main calls zone.New and ReadDB for every
\* zone and exits when a database file cannot be read
Restart ==
  /\ crashed
  /\ \E rd \in {[z \in Zones |-> ReadDB(EmptyTable, file[z])]} :
       /\ \A z \in Zones : rd[z].err = Nil
       /\ records' = [z \in Zones |-> rd[z].records]
  /\ mtime' = [z \in Zones |-> file[z].modTime]
  /\ crashed' = FALSE
  /\ UNCHANGED <<file, mu, pc, hz, req, m, cur, tx, served, pad, call>>

Next ==
  \/ \E h \in Handlers : QueryStart(h)
  \/ \E h \in Handlers : RangeKey(h)
  \/ \E h \in Handlers : RangeEnd(h)
  \/ \E h \in Handlers : AxfrSoa(h)
  \/ \E h \in Handlers : Axfr(h)
  \/ \E h \in Handlers : Chase(h)
  \/ \E h \in Handlers : UpdateStart(h)
  \/ \E h \in Handlers : Lock(h)
  \/ \E h \in Handlers : ApplyRR(h)
  \/ \E h \in Handlers : Create(h)
  \/ \E h \in Handlers : Flush(h)
  \/ \E h \in Handlers : Close(h)
  \/ \E h \in Handlers : Stamp(h)
  \/ \E h \in Handlers : Finish(h)
  \/ RaceFault
  \/ Shutdown
  \/ Restart

Spec == Init /\ [][Next]_vars

(***************************************************************************)
(* Properties of the pad (SpecPad).                                        *)
(***************************************************************************)
IsAdd(rr) == IsDomainName(rr.Name) /\ rr.Class = ClassINET
IsDelSpecific(rr) == IsDomainName(rr.Name) /\ rr.Class = ClassNONE /\ rr.Ttl = 0
IsDelAny(rr) ==
  IsDomainName(rr.Name) /\ rr.Class = ClassANY /\ rr.Rdlength = 0 /\ rr.Rrtype = TypeANY

ExactKey(name, rtype) == GetKey(name, rtype).key
KeyPrefix(name) == GetKeyDomain(name).key

\* the owner part and the type part of an exact key
KeyOwner(k) == Split(k, "_")[1]
KeyType(k) == Split(k, "_")[2]

\* the stored lines of a table, as (owner, type) pairs
StoredPairs(tbl) ==
  UNION { { <<ToLower(Split(tbl[k][i], TAB)[1]), Split(tbl[k][i], TAB)[4]>> :
              i \in 1..Len(tbl[k]) } : k \in DOMAIN tbl }

CnameExclusive(tbl) ==
  /\ \A k1, k2 \in DOMAIN tbl :
       KeyOwner(k1) = KeyOwner(k2) /\ KeyType(k1) = "CNAME" => KeyType(k2) = "CNAME"
  /\ \A p1, p2 \in StoredPairs(tbl) :
       p1[1] = p2[1] /\ p1[2] = "CNAME" => p2[2] = "CNAME"

\* C4: after any sequence of update RRs applied to the empty table, no owner
\* name holds both a CNAME RRset and an RRset of another type.
C4_CnameExclusivity == CnameExclusive(pad)

\* an add of an A record was tried at a name that holds a CNAME
C4_Witness ==
  /\ call.done /\ IsAdd(call.rr) /\ call.rr.Rrtype = TypeA
  /\ Lookup(call.before, ExactKey(call.rr.Name, TypeCNAME)) # <<>>
  /\ Lookup(pad, ExactKey(call.rr.Name, TypeCNAME)) # <<>>

\* C5: an add of a CNAME at a name holding an A record fails with the
\* records-exist error, an add of another type at a name holding a CNAME
\* fails with the CNAME-exists error, and both leave the table as it was.
C5_RejectedAddUnmodified ==
  call.done /\ IsAdd(call.rr) =>
    /\ ( /\ call.rr.Rrtype = TypeCNAME
         /\ Lookup(call.before, ExactKey(call.rr.Name, TypeA)) # <<>> )
       => call.err = errRecordsIsExist /\ pad = call.before
    /\ ( /\ call.rr.Rrtype # TypeCNAME
         /\ Lookup(call.before, ExactKey(call.rr.Name, TypeCNAME)) # <<>> )
       => call.err = errCNAMERecordIsExist /\ pad = call.before

\* a CNAME add has been rejected at a name that holds A records
C5_Witness ==
  /\ call.done /\ IsAdd(call.rr) /\ call.rr.Rrtype = TypeCNAME
  /\ Lookup(call.before, ExactKey(call.rr.Name, TypeA)) # <<>>
  /\ call.err = errRecordsIsExist

\* C6: an add of an RR of any type whose canonical string is already in its
\* RRset returns no error and leaves the table unchanged.
C6_DuplicateAddNoop ==
  ( /\ call.done /\ IsAdd(call.rr)
    /\ Contains(Lookup(call.before, ExactKey(call.rr.Name, call.rr.Rrtype)),
                String(call.rr)) )
  => call.err = Nil /\ pad = call.before

\* the stored line v and the request RR r denote the same record when TTL
\* and class are ignored and letters are compared without case
SameRecord(v, r) ==
  LET f == Split(v, TAB)
  IN /\ ToLower(f[1]) = ToLower(r.Name)
     /\ f[4] = TypeString(r.Rrtype)
     /\ ToLower(f[5]) = ToLower(r.Rdata)

\* C7: delete-specific-RR keeps, in order, exactly the stored RRs of the
\* RRset that differ from the request, leaves the other keys alone, returns
\* no error, and changes nothing when the RRset or the RR is absent.
C7_DeleteSpecific ==
  call.done /\ IsDelSpecific(call.rr) =>
    LET k == ExactKey(call.rr.Name, call.rr.Rrtype)
    IN /\ call.err = Nil
       /\ DOMAIN pad = DOMAIN call.before
       /\ \A x \in DOMAIN pad : x # k => pad[x] = call.before[x]
       /\ k \in DOMAIN call.before =>
            pad[k] = SelectSeq(call.before[k], LAMBDA v : ~SameRecord(v, call.rr))
       /\ (\A i \in 1..Len(Lookup(call.before, k)) :
              ~SameRecord(call.before[k][i], call.rr)) => pad = call.before

\* an RR was removed from an RRset and a sibling RR of the RRset was kept
C7_Witness ==
  /\ call.done /\ IsDelSpecific(call.rr)
  /\ LET k == ExactKey(call.rr.Name, call.rr.Rrtype)
     IN /\ k \in DOMAIN call.before
        /\ Len(pad[k]) >= 1
        /\ Len(pad[k]) < Len(call.before[k])

\* C8: after delete-by-ANY at a name no key of the table has the name's key
\* prefix as a prefix, and the same delete applied again changes nothing and
\* returns no error.
C8_DeleteByAny ==
  call.done /\ IsDelAny(call.rr) =>
    /\ call.err = Nil
    /\ \A k \in DOMAIN pad : ~HasPrefix(k, KeyPrefix(call.rr.Name))
    /\ UpdateRecord(pad, call.rr) = [records |-> pad, err |-> Nil]

\* a delete-by-ANY has removed records of two types under the name
C8_Witness ==
  /\ call.done /\ IsDelAny(call.rr)
  /\ \E k1, k2 \in DOMAIN call.before :
       /\ KeyType(k1) # KeyType(k2)
       /\ HasPrefix(k1, KeyPrefix(call.rr.Name)) /\ call.before[k1] # <<>>
       /\ HasPrefix(k2, KeyPrefix(call.rr.Name)) /\ call.before[k2] # <<>>
       /\ k1 \notin DOMAIN pad /\ k2 \notin DOMAIN pad

IsDelRRset(rr) ==
  IsDomainName(rr.Name) /\ rr.Class = ClassANY /\ rr.Rdlength = 0 /\ rr.Rrtype # TypeANY

\* C16: delete-RRset-by-type at name N and type T removes the key
\* ExactKey(N, T) and nothing else: every other key keeps its record list,
\* no error is returned, and an absent key leaves the table unchanged.
C16_DeleteRRsetByType ==
  call.done /\ IsDelRRset(call.rr) =>
    LET k == ExactKey(call.rr.Name, call.rr.Rrtype)
    IN /\ call.err = Nil
       /\ DOMAIN pad = DOMAIN call.before \ {k}
       /\ \A x \in DOMAIN pad : pad[x] = call.before[x]
       /\ k \notin DOMAIN call.before => pad = call.before

\* an RRset was deleted while the name held an RRset of another type and a
\* sibling name shared the textual prefix of its key
C16_Witness ==
  /\ call.done /\ IsDelRRset(call.rr)
  /\ LET k == ExactKey(call.rr.Name, call.rr.Rrtype)
         p == KeyPrefix(call.rr.Name)
     IN /\ k \in DOMAIN call.before /\ call.before[k] # <<>>
        /\ \E x \in DOMAIN pad : KeyOwner(x) = p /\ x # k /\ pad[x] # <<>>
        /\ \E x \in DOMAIN pad : KeyOwner(x) # p /\ HasPrefix(x, p) /\ pad[x] # <<>>

Unclassified(rr) ==
  /\ ~(rr.Class = ClassANY /\ rr.Rdlength = 0)
  /\ ~(rr.Class = ClassNONE /\ rr.Ttl = 0)
  /\ rr.Class # ClassINET

\* C18: an update RR that is none of (class ANY, rdlength 0), (class NONE,
\* TTL 0), (class IN) returns no error and leaves the table unchanged.
C18_UnclassifiedIgnored ==
  call.done /\ Unclassified(call.rr) => call.err = Nil /\ pad = call.before

\* an RR of class ANY with rdata was ignored while the table held the RRset
\* it names
C18_Witness ==
  /\ call.done /\ Unclassified(call.rr)
  /\ call.rr.Class = ClassANY /\ call.rr.Rdlength # 0
  /\ Lookup(call.before, ExactKey(call.rr.Name, call.rr.Rrtype)) # <<>>
  /\ pad = call.before

\* the table holds no record under the key prefix of name
NoRecordsUnder(tbl, name) ==
  \A k \in DOMAIN tbl : HasPrefix(k, KeyPrefix(name)) => KeyOwner(k) = KeyPrefix(name) /\ tbl[k] = <<>>

\* C19: every key of the table maps to a non-empty record list, and an add
\* of a CNAME at a name whose records have all been removed is accepted.
C19_NoEmptyRRsets ==
  /\ \A k \in DOMAIN pad : pad[k] # <<>>
  /\ ( /\ call.done /\ IsAdd(call.rr) /\ call.rr.Rrtype = TypeCNAME
       /\ NoRecordsUnder(call.before, call.rr.Name) )
     => call.err = Nil

\* C20: an add of a CNAME at name N returns the records-exist error only if
\* the table holds a record whose owner name is N.
C20_CnameConflictIsReal ==
  ( /\ call.done /\ IsAdd(call.rr) /\ call.rr.Rrtype = TypeCNAME
    /\ call.err = errRecordsIsExist )
  => \E p \in StoredPairs(call.before) : p[1] = ToLower(call.rr.Name)

(***************************************************************************)
(* Properties of the request handlers (Spec).                              *)
(***************************************************************************)
InCS(h) == pc[h] \in Locked

\* C1: when an RR of the batch returns an error, the table after
\* HandleRequest has returned is the table from before the batch and the
\* reply carries rcode Refused.
C1_BatchAtomicity ==
  [][\A h \in Handlers :
       pc[h] = "apply" /\ tx'[h].st = "failed"
         => records'[hz[h]] = tx[h].pre /\ m'[h].Rcode = RcodeRefused]_vars

\* C2: every table a query reads while an update of its zone is under way
\* is the table from before the batch or, if the batch succeeds, the table
\* after it.
C2_SnapshotIsolation ==
  [][\A h \in Handlers :
       pc[h] \in Locked /\ pc'[h] = "done"
         => tx[h].obs \subseteq
              (IF tx'[h].st = "updated" THEN {tx[h].pre, records'[hz[h]]}
               ELSE {tx[h].pre})]_vars

\* C3: no two updates of one zone are between the gate and the end of
\* writeDB at once, and an update waiting for the lock of its zone finds it
\* free whenever no update of the same zone is in that section, whatever
\* the updates of other zones do.
C3_UpdateSerialization ==
  /\ \A g, h \in Handlers : g # h /\ InCS(g) /\ InCS(h) => hz[g] # hz[h]
  /\ \A h \in Handlers :
       (pc[h] = "lock" /\ \A g \in Handlers : InCS(g) => hz[g] # hz[h])
         => TryLock(hz[h])

\* an update waits for the lock while another update of the same zone has
\* applied an RR
C3_Witness ==
  \E g, h \in Handlers :
    InCS(g) /\ tx[g].n > 0 /\ pc[h] = "lock" /\ hz[h] = hz[g]

OutsideCIDR(z, r) ==
  /\ allowCIDROf(z) # ""
  /\ ~PrefixContains(ParsePrefix(allowCIDROf(z)), ParseAddr(SplitHostPort(r.Remote)))

\* C9: an update from outside the allow-CIDR is answered Refused,
\* otherwise one without a valid TSIG is answered NotAuth; both return
\* without applying an RR or calling writeDB, and the table, the file and
\* the last-modified time stay as they were.
C9_UnauthorizedUpdate ==
  [][\A h \in Handlers :
       (pc[h] = "lock" /\ pc'[h] # "lock" /\ ~crashed'
          /\ (OutsideCIDR(hz[h], req[h]) \/ req[h].Tsig # "ok"))
         => /\ pc'[h] = "done"
            /\ m'[h].Rcode = IF OutsideCIDR(hz[h], req[h]) THEN RcodeRefused
                             ELSE RcodeNotAuth
            /\ records' = records /\ file' = file /\ mtime' = mtime]_vars

\* an update without TSIG from outside the allow-CIDR of a zone that holds
\* a record has been refused
C9_Witness ==
  \E h \in Handlers :
    /\ pc[h] = "done" /\ req[h].Opcode = OpcodeUpdate
    /\ OutsideCIDR(hz[h], req[h]) /\ req[h].Tsig # "ok" /\ m[h].Rcode = RcodeRefused
    /\ records[hz[h]] # EmptyTable

IsAxfrOf(q, z) == ToLower(q.Name) = ToLower(z) /\ q.Qtype = TypeAXFR

\* C10: a query message that holds an AXFR question for the zone and has
\* no TSIG record, or one whose verification failed, is answered NotAuth
\* with an empty answer section.
C10_AxfrRefused ==
  \A h \in Handlers :
    ( /\ pc[h] = "done" /\ req[h].Opcode = OpcodeQuery /\ req[h].Tsig # "ok"
      /\ \E i \in 1..Len(req[h].Question) : IsAxfrOf(req[h].Question[i], hz[h]) )
    => m[h].Rcode = RcodeNotAuth /\ m[h].Answer = <<>>

\* an AXFR whose TSIG did not verify has been refused while the zone holds
\* a record
C10_Witness ==
  \E h \in Handlers :
    /\ pc[h] = "done" /\ req[h].Opcode = OpcodeQuery /\ req[h].Tsig = "bad"
    /\ IsAxfrOf(req[h].Question[1], hz[h])
    /\ records[hz[h]] # EmptyTable
    /\ m[h].Rcode = RcodeNotAuth /\ m[h].Answer = <<>>

\* a and b have the same keys and, for each key, the same set of records
SameTable(a, b) ==
  /\ DOMAIN a = DOMAIN b
  /\ \A k \in DOMAIN a :
       {a[k][i] : i \in 1..Len(a[k])} = {b[k][i] : i \in 1..Len(b[k])}

\* C14: when every RR of a batch has been applied and writeDB fails, the
\* reply has rcode Refused and the table of the zone is the table from
\* before the batch.
C14_RollbackOnSaveFailure ==
  [][\A h \in Handlers :
       pc[h] \in Locked /\ tx'[h].st = "unsaved"
         => records'[hz[h]] = tx[h].pre /\ m'[h].Rcode = RcodeRefused]_vars

\* C15: after a successful writeDB of a table, ReadDB of the file into an
\* empty zone gives a table with the same keys and the same set of records
\* under each key.
C15_SaveLoadRoundTrip ==
  [][\A h \in Handlers :
       pc[h] \in Locked /\ tx'[h].st = "updated"
         => LET rd == ReadDB(EmptyTable, file'[hz[h]])
            IN rd.err = Nil /\ SameTable(rd.records, records'[hz[h]])]_vars

\* a table of two keys has been saved
C15_Witness ==
  \E h \in Handlers :
    /\ pc[h] = "done" /\ tx[h].io = "ok"
    /\ Cardinality(file[hz[h]].lines) = 2
    /\ \A l \in file[hz[h]].lines : Len(Unmarshal(l).v.Records) = 1

\* C17: when writeDB returns no error, every entry of the table is in the
\* file, the file was closed without error and the last-modified time has
\* been set in this save, to a time not before that of the file; when
\* create, write, flush or close fails, writeDB returns an error (the reply
\* is Refused) and leaves the last-modified time as it was.
C17_SaveSuccessIsComplete ==
  [][\A h \in Handlers :
       pc[h] \in Locked /\ pc'[h] = "done" /\ tx'[h].io # "none"
         => LET z == hz[h]
            IN /\ tx'[h].st = "updated"
                    => /\ tx'[h].io = "ok"
                       /\ file'[z].lines = dbLines(records'[z], DOMAIN records'[z])
                       /\ file'[z].cut = ""
                       /\ pc[h] = "stamp" /\ mtime'[z] >= file'[z].modTime
               /\ tx'[h].io # "ok"
                    => /\ tx'[h].st = "unsaved"
                       /\ m'[h].Rcode = RcodeRefused
                       /\ mtime'[z] = mtime[z]]_vars

\* C11: the answer to a zone transfer with valid TSIG is SOA, the NS of the
\* zone, the A of its name server, every record of a table the zone held
\* during the transfer once, with the records of a key in their stored
\* order, and the same SOA again.
C11_AxfrEnvelope ==
  [][\A h \in Handlers :
       pc[h] = "axfr2" /\ pc'[h] = "done"
         => LET a == m'[h].Answer
                n == Len(a)
            IN /\ n >= 4
               /\ a[1].Rrtype = TypeSOA /\ a[n] = a[1]
               /\ a[2] = nsRR(hz[h]).ns /\ a[3] = nsRR(hz[h]).a
               /\ \E tbl \in cur[h].view : \E order \in KeyOrders(DOMAIN tbl) :
                    LET lines == collect(tbl, order, DOMAIN tbl)
                    IN /\ n = Len(lines) + 4
                       /\ \A i \in 1..Len(lines) : a[3 + i] = NewRR(lines[i]).rr]_vars

\* name is the zone's name or below it, letters compared without case
InZone(name, z) ==
  LET ln == SplitDomainName(ToLower(name))
      lz == SplitDomainName(ToLower(z))
  IN Len(lz) <= Len(ln) /\ SubSeq(ln, Len(ln) - Len(lz) + 1, Len(ln)) = lz

\* the RRset of name and rtype in tbl
RRsOf(tbl, name, rtype) ==
  LET lines == Lookup(tbl, ExactKey(name, rtype))
  IN [i \in 1..Len(lines) |-> NewRR(lines[i]).rr]

\* C12: for a query (a, T), T not CNAME, answered from a table that holds a
\* CNAME a -> b with b in the zone, records of type T at b and none at a,
\* the answer is the CNAME of a followed by the type-T records of b; in
\* every chased answer a record is owned by the target of a CNAME before
\* it; a query of type CNAME is answered with CNAMEs of its own name only.
C12_CnameChase ==
  \A h \in Handlers :
    (pc[h] = "done" /\ req[h].Opcode = OpcodeQuery /\ Len(m[h].Question) > 0)
    => LET q == m[h].Question[1]
           z == hz[h]
           a == m[h].Answer
       IN /\ \A tbl \in cur[h].view :
               LET cn == RRsOf(tbl, q.Name, TypeCNAME)
               IN ( /\ cur[h].view = {tbl}
                    /\ q.Qtype \notin {TypeCNAME, TypeANY, TypeAXFR}
                    /\ Len(cn) = 1 /\ InZone(q.Name, z) /\ InZone(cn[1].Rdata, z)
                    /\ RRsOf(tbl, cn[1].Rdata, q.Qtype) # <<>>
                    /\ RRsOf(tbl, q.Name, q.Qtype) = <<>> )
                  => a = cn \o RRsOf(tbl, cn[1].Rdata, q.Qtype)
          /\ ( /\ q.Qtype \notin {TypeCNAME, TypeANY, TypeAXFR}
               /\ Len(a) > 0 /\ a[1].Rrtype = TypeCNAME )
             => \A i \in 2..Len(a) :
                  \E j \in 1..(i - 1) :
                    a[j].Rrtype = TypeCNAME /\ ToLower(a[j].Rdata) = ToLower(a[i].Name)
          /\ q.Qtype = TypeCNAME
             => \A i \in 1..Len(a) :
                  a[i].Rrtype = TypeCNAME /\ ToLower(a[i].Name) = ToLower(q.Name)

\* C13: the CNAME search of a query comes to an end: on a table that has
\* not changed since the query began, the search is never again at a name
\* whose CNAME it has followed (from there the same look-ups repeat for
\* ever).
C13_ChaseTerminates ==
  \A h \in Handlers :
    (pc[h] = "chase" /\ cur[h].view = {records[hz[h]]})
      => \A i \in 1..Len(m[h].Answer) :
           m[h].Answer[i].Rrtype = TypeCNAME
             => ToLower(m[h].Answer[i].Name) # ToLower(cur[h].qName)

====
